---- MODULE Spec2Model ----
(***************************************************************************)
(* A model of the file-conversion-tools scripts.                           *)
(*                                                                         *)
(*   SpecGrid : geoh5/create_geoh5_block_model_from_xyz_file.py            *)
(*              (CSV of block centroids -> grid inference -> block model)  *)
(*   SpecMesh : geoh5/convert_triangular_mesh_to_geoh5_surface.py ("pv")   *)
(*              and mesh_convert_to_geoh5.py ("tm")                        *)
(*              (single / batch conversion of DXF and mesh files)          *)
(*                                                                         *)
(* Coordinates are binary floating-point numbers.  The model keeps the     *)
(* rounding of the arithmetic and scales the format down: a number is a    *)
(* whole count of quanta (Unit quanta make 1.0) whose significand has at   *)
(* most Precision bits; every operation rounds to nearest, ties to even.   *)
(***************************************************************************)
EXTENDS Integers, Sequences, FiniteSets, TLC

VARIABLES
    \* ---- block-model script ----
    gpc,      \* position of the script: "read", "loaded", "inferred", "created"
    df,       \* block_model_dataframe: sequence of rows [x, y, z]
    gen,      \* how the CSV was made: <<>> or the lattice <<ax, ay, az>>, a = <<n, s, o>>
    grid,     \* xn, yn, zn, xs, ys, zs, origin as returned by the inference
    bm,       \* the BlockModel created in the workspace
    params,   \* block_model_params: float_params, integer_params, mapping
    fpos,     \* position in float_parameters
    ipos,     \* position in integer_parameters
    attrs,    \* the data added to the block model, in order
    \* ---- mesh scripts ----
    script,   \* "pv" or "tm"
    mode,     \* MODE
    ext,      \* EXT (tm only)
    infile,   \* INFILE
    fs,       \* the folder: file name -> content
    runs,     \* completed runs of the script
    pc,       \* position of the running script
    queue,    \* file_path_list
    idx,      \* position in file_path_list
    msh,      \* the mesh in memory
    open,     \* output containers opened and not closed
    status,   \* exit status of the process: "none" (normal end), "1", "2"
    msg,      \* what the process reported
    failure,  \* kind of the failure that ended the process
    readLog,  \* files read in the current run
    startFs,  \* the folder when the current file's conversion began
    snap      \* the folder after the first completed run

attrVars == <<params, fpos, ipos, attrs>>
gridVars == <<gpc, df, gen, grid, bm, attrVars>>
meshVars == <<script, mode, ext, infile, fs, runs, pc, queue, idx, msh, open,
              status, msg, failure, readLog, startFs, snap>>
vars == <<gridVars, meshVars>>

----------------------------------------------------------------------------
\* Bounds of the model

Precision == 4
FracBits == 3
MaxPts == 3
MaxCount == 6

Unit == 2 ^ FracBits

----------------------------------------------------------------------------
\* Floating-point arithmetic (numpy float64, scaled down)

NaN == 0 - 2 ^ 30

IsNaN(a) == a = NaN

Abs(a) == IF a < 0 THEN 0 - a ELSE a

RECURSIVE Ulp(_)
Ulp(t) == IF t < 2 ^ Precision THEN 1 ELSE 2 * Ulp(t \div 2)

\* num / den (den > 0) rounded to the nearest number of the format, ties to even
FRound(num, den) ==
    LET a == Abs(num)
        u == Ulp(a \div den)
        d == den * u
        q == a \div d
        r == a % d
        m == IF 2 * r > d \/ (2 * r = d /\ q % 2 = 1) THEN q + 1 ELSE q
    IN  IF num < 0 THEN 0 - (m * u) ELSE m * u

IsFloat(a) == FRound(a, 1) = a

FAdd(a, b) == IF IsNaN(a) \/ IsNaN(b) THEN NaN ELSE FRound(a + b, 1)

FSub(a, b) == IF IsNaN(a) \/ IsNaN(b) THEN NaN ELSE FRound(a - b, 1)

FMul(k, a) == IF IsNaN(a) THEN NaN ELSE FRound(k * a, 1)

Half(a) == IF IsNaN(a) THEN NaN ELSE FRound(a, 2)

\* a / d for an integer count d; 0.0 / 0 is nan (with a RuntimeWarning only)
FDiv(a, d) ==
    IF IsNaN(a) THEN NaN
    ELSE IF d = 0 THEN NaN
    ELSE FRound(a, d)

----------------------------------------------------------------------------
\* Block-model script: the CSV

Axes == {"x", "y", "z"}

XVals == {0, Unit, 2 * Unit, 5 * Unit}
YVals == {0, 3 * Unit}
ZVals == {0 - Unit, Unit}

RawRows == [x : XVals, y : YVals, z : ZVals]

RawCsv == UNION {[1..k -> RawRows] : k \in 1..MaxPts}

\* A lattice axis <<n, s, o>>: n cells of size s from the corner o
LatticeX ==
    {<<n, s, o>> : n \in 2..MaxCount,
                   s \in {Unit, 5 * Unit, 15 * Unit},
                   o \in {0 - (Unit \div 2), 0, 0 - ((11 * Unit) \div 2)}}
LatticeY == {<<2, 3 * Unit, 0>>, <<3, Unit, Unit \div 2>>}
LatticeZ == {<<2, 2 * Unit, 0 - Unit>>, <<2, Unit, 2 * Unit>>}

\* origin + spacing/2 + k*spacing, as a program computes it
Centre(a, k) == FAdd(FAdd(a[3], Half(a[2])), FMul(k, a[2]))

\* One sample at each cell centre, x fastest
LatticeRow(ax, ay, az, i) ==
    LET kx == i % ax[1]
        ky == (i \div ax[1]) % ay[1]
        kz == i \div (ax[1] * ay[1])
    IN  [x |-> Centre(ax, kx), y |-> Centre(ay, ky), z |-> Centre(az, kz)]

LatticeCsv(ax, ay, az, order) ==
    LET total == ax[1] * ay[1] * az[1]
    IN  [j \in 1..total |->
            LatticeRow(ax, ay, az,
                       IF order = "fwd" THEN j - 1 ELSE total - j)]

Orders == {"fwd", "rev"}

NoGen == <<>>

----------------------------------------------------------------------------
\* Block-model script: grid inference

Column(xyzdf, ax) ==
    [i \in 1..Len(xyzdf) |->
        IF ax = "x" THEN xyzdf[i].x ELSE IF ax = "y" THEN xyzdf[i].y ELSE xyzdf[i].z]

Contains(s, v) == \E i \in 1..Len(s) : s[i] = v

\* Series.unique(): the distinct values in order of first appearance
RECURSIVE UniqueFrom(_, _)
UniqueFrom(col, acc) ==
    IF col = <<>> THEN acc
    ELSE UniqueFrom(Tail(col),
                    IF Contains(acc, Head(col)) THEN acc ELSE Append(acc, Head(col)))

KeepAll(col) == col

Unique(col) == UniqueFrom(col, <<>>)

RECURSIVE ArrMax(_)
ArrMax(a) ==
    IF Len(a) = 1 THEN a[1]
    ELSE LET m == ArrMax(Tail(a)) IN IF a[1] > m THEN a[1] ELSE m

RECURSIVE ArrMin(_)
ArrMin(a) ==
    IF Len(a) = 1 THEN a[1]
    ELSE LET m == ArrMin(Tail(a)) IN IF a[1] < m THEN a[1] ELSE m

SpacingOffByOne(u) == FDiv(FSub(ArrMax(u), ArrMin(u)), Len(u))

\* (e.max() - e.min()) / (xn - 1)
Spacing(u) == FDiv(FSub(ArrMax(u), ArrMin(u)), Len(u) - 1)

OriginAtCentre(u, s) == ArrMin(u)

\* e.min() - xs / 2
Origin(u, s) == FSub(ArrMin(u), Half(s))

extract_block_model_grid_from_xyz_dataframe(xyzdf) ==
    LET e == Unique(Column(xyzdf, "x"))
        n == Unique(Column(xyzdf, "y"))
        z == Unique(Column(xyzdf, "z"))
        xs == Spacing(e)
        ys == Spacing(n)
        zs == Spacing(z)
    IN  [xn |-> Len(e), yn |-> Len(n), zn |-> Len(z),
         xs |-> xs, ys |-> ys, zs |-> zs,
         origin |-> <<Origin(e, xs), Origin(n, ys), Origin(z, zs)>>]

----------------------------------------------------------------------------
\* Block-model script: the block model

RECURSIVE CumSum(_, _)
CumSum(a, acc) ==
    IF a = <<>> THEN <<>>
    ELSE LET t == FAdd(acc, Head(a)) IN <<t>> \o CumSum(Tail(a), t)

CellDelimitersNoPad(cnt, s) == CumSum([k \in 1..cnt |-> FMul(1, s)], 0)

\* np.cumsum(np.pad(np.ones(xn) * xs, (1, 0), "constant"))
CellDelimiters(cnt, s) == CumSum(<<0>> \o [k \in 1..cnt |-> FMul(1, s)], 0)

BlockModelCreate(g) ==
    [origin |-> g.origin,
     u_cell_delimiters |-> CellDelimiters(g.xn, g.xs),
     v_cell_delimiters |-> CellDelimiters(g.yn, g.ys),
     z_cell_delimiters |-> CellDelimiters(g.zn, g.zs),
     rotation |-> 0]

\* blockmodel.centroids along one axis: the centre of cell i (1-based)
CellCentre(o, d, i) == FAdd(o, Half(FAdd(d[i], d[i + 1])))

NoGrid == <<>>
NoBm == <<>>

ReadCsvRaw ==
    /\ gpc = "read"
    /\ \E rows \in RawCsv :
          /\ df' = rows
          /\ gen' = NoGen
    /\ gpc' = "loaded"
    /\ UNCHANGED <<grid, bm, attrVars, meshVars>>

ReadCsvLattice ==
    /\ gpc = "read"
    /\ \E ax \in LatticeX, ay \in LatticeY, az \in LatticeZ, order \in Orders :
          /\ df' = LatticeCsv(ax, ay, az, order)
          /\ gen' = <<ax, ay, az>>
    /\ gpc' = "loaded"
    /\ UNCHANGED <<grid, bm, attrVars, meshVars>>

ExtractGrid ==
    /\ gpc = "loaded"
    /\ grid' = extract_block_model_grid_from_xyz_dataframe(df)
    /\ gpc' = "inferred"
    /\ UNCHANGED <<df, gen, bm, attrVars, meshVars>>

CreateBlockModel ==
    /\ gpc = "inferred"
    /\ bm' = BlockModelCreate(grid)
    /\ gpc' = "created"
    /\ UNCHANGED <<df, gen, grid, attrVars, meshVars>>

----------------------------------------------------------------------------
\* Block-model script: the parameters file and the value maps

MaxKeys == 2

\* keys of a TOML table are strings
KeyStrings == {"0", "00", "1", "01", "2", "x"}

\* int(k): leading zeros are accepted, a key that is no integer literal raises
IntOf(k) ==
    IF k \in {"0", "00"} THEN 0
    ELSE IF k \in {"1", "01"} THEN 1
    ELSE IF k = "2" THEN 2
    ELSE 0 - 1

IsIntKey(k) == k # "x"

Labels == {"Granite", "Shale"}

\* a value map of the file: <<key, label>> pairs in file order, no key twice
ValueMaps ==
    UNION {{m \in [1..n -> KeyStrings \X Labels] :
               \A i, j \in 1..n : m[i][1] = m[j][1] => i = j} : n \in 0..MaxKeys}

ZoneMaps == {<<>>, <<<<"1", "Shale">>, <<"0", "Granite">>>>}

ParamSets ==
    {[float_params |-> f, integer_params |-> <<>>, mapping |-> [p \in {} |-> <<>>]] :
        f \in {<<>>, <<"grade">>}}
    \cup
    {[float_params |-> f, integer_params |-> <<"rock">>,
      mapping |-> [p \in {"rock"} |-> r]] :
        f \in {<<>>, <<"grade">>}, r \in ValueMaps}
    \cup
    {[float_params |-> <<>>, integer_params |-> <<"rock", "zone">>,
      mapping |-> [p \in {"rock", "zone"} |-> IF p = "rock" THEN r ELSE z]] :
        r \in ValueMaps, z \in ZoneMaps}

NoParams == [float_params |-> <<>>, integer_params |-> <<>>, mapping |-> <<>>]

EmptyDict == [k \in {} |-> ""]

DictSet(d, k, v) == [j \in DOMAIN d \cup {k} |-> IF j = k THEN v ELSE d[j]]

\* {int(k): v for k, v in value_map_raw.items()}: a later key replaces an
\* earlier one that denotes the same integer
RECURSIVE IntKeyed(_, _)
IntKeyed(raw, acc) ==
    IF raw = <<>> THEN acc
    ELSE IntKeyed(Tail(raw), DictSet(acc, IntOf(Head(raw)[1]), Head(raw)[2]))

KeepConfiguredZero(d) == IF 0 \in DOMAIN d THEN d ELSE DictSet(d, 0, "Unknown")

\* value_map[0] = "Unknown"
SetUnknown(d) == DictSet(d, 0, "Unknown")

ValueMapOf(raw) == SetUnknown(IntKeyed(raw, EmptyDict))

RaisesValueError(raw) == \E i \in 1..Len(raw) : ~IsIntKey(raw[i][1])

FloatData(p) == [name |-> p, primitive_type |-> "FLOAT", value_map |-> EmptyDict]

ReferencedData(i, raw) ==
    [name |-> i, primitive_type |-> "REFERENCED", value_map |-> ValueMapOf(raw)]

AttrIdle == params = NoParams /\ fpos = 0 /\ ipos = 0 /\ attrs = <<>>

MeshIdle ==
    /\ script = "pv" /\ mode = "single" /\ ext = "" /\ infile = ""
    /\ fs = <<>> /\ runs = 0 /\ pc = "idle" /\ queue = <<>> /\ idx = 0
    /\ msh = <<>> /\ open = {} /\ status = "none" /\ msg = "" /\ failure = "none"
    /\ readLog = <<>> /\ startFs = <<>> /\ snap = <<>>

InitGrid ==
    /\ gpc = "read" /\ df = <<>> /\ gen = NoGen /\ grid = NoGrid /\ bm = NoBm
    /\ AttrIdle
    /\ MeshIdle

NextGrid == ReadCsvRaw \/ ReadCsvLattice \/ ExtractGrid \/ CreateBlockModel

SpecGrid == InitGrid /\ [][NextGrid]_vars

----------------------------------------------------------------------------
\* Block-model script: adding the data (after the block model is created)

\* pv.PolyData(blockmodel.centroids).interpolate(points, ...)
Interpolate ==
    /\ gpc = "created"
    /\ gpc' = "interpolated"
    /\ fpos' = 1
    /\ ipos' = 1
    /\ UNCHANGED <<df, gen, grid, bm, params, attrs, meshVars>>

\* for p in float_parameters: blockmodel.add_data
AddFloatData ==
    /\ gpc = "interpolated"
    /\ fpos <= Len(params.float_params)
    /\ attrs' = Append(attrs, FloatData(params.float_params[fpos]))
    /\ fpos' = fpos + 1
    /\ UNCHANGED <<gpc, df, gen, grid, bm, params, ipos, meshVars>>

\* for i in integer_parameters: build the value map, blockmodel.add_data
AddIntegerData ==
    /\ gpc = "interpolated"
    /\ fpos > Len(params.float_params)
    /\ ipos <= Len(params.integer_params)
    /\ LET i == params.integer_params[ipos]
           raw == params.mapping[i]
       IN  IF RaisesValueError(raw)
           THEN /\ gpc' = "crashed"
                /\ UNCHANGED <<attrs, ipos>>
           ELSE /\ attrs' = Append(attrs, ReferencedData(i, raw))
                /\ ipos' = ipos + 1
                /\ UNCHANGED gpc
    /\ UNCHANGED <<df, gen, grid, bm, params, fpos, meshVars>>

\* print("Complete!")
Complete ==
    /\ gpc = "interpolated"
    /\ fpos > Len(params.float_params)
    /\ ipos > Len(params.integer_params)
    /\ gpc' = "complete"
    /\ UNCHANGED <<df, gen, grid, bm, attrVars, meshVars>>

\* a 3 x 3 x 2 grid of centroids
AttrCsv ==
    LatticeCsv(<<3, Unit, 0 - (Unit \div 2)>>, <<3, Unit, Unit \div 2>>,
               <<2, Unit, 2 * Unit>>, "fwd")

\* the script with its block model created, for every parameters file
InitAttr ==
    /\ gpc = "created"
    /\ df = AttrCsv
    /\ gen = <<<<3, Unit, 0 - (Unit \div 2)>>, <<3, Unit, Unit \div 2>>, <<2, Unit, 2 * Unit>>>>
    /\ grid = extract_block_model_grid_from_xyz_dataframe(AttrCsv)
    /\ bm = BlockModelCreate(extract_block_model_grid_from_xyz_dataframe(AttrCsv))
    /\ params \in ParamSets
    /\ fpos = 0 /\ ipos = 0 /\ attrs = <<>>
    /\ MeshIdle

NextAttr == Interpolate \/ AddFloatData \/ AddIntegerData \/ Complete

SpecAttr == InitAttr /\ [][NextAttr]_vars

----------------------------------------------------------------------------
\* Properties of the value maps

Referenced(a) == a.primitive_type = "REFERENCED"

RawOf(a) == params.mapping[a.name]

\* the label the file gives last for the integer code c
LastLabel(raw, c) ==
    raw[CHOOSE i \in 1..Len(raw) :
            /\ IntOf(raw[i][1]) = c
            /\ \A j \in (i + 1)..Len(raw) : IntOf(raw[j][1]) # c][2]

Codes(raw) == {IntOf(raw[i][1]) : i \in 1..Len(raw)}

\* C11 (as claimed): the value map of every integer attribute maps 0 to
\* "Unknown", whatever the file gives for 0; every other configured code keeps
\* its configured label under its integer key; no other key is added.
C11_ZeroIsUnknown ==
    \A n \in 1..Len(attrs) :
        Referenced(attrs[n]) =>
            LET vm == attrs[n].value_map
                raw == RawOf(attrs[n])
            IN  /\ vm[0] = "Unknown"
                /\ \A i \in 1..Len(raw) :
                      IntOf(raw[i][1]) # 0 => vm[IntOf(raw[i][1])] = raw[i][2]
                /\ DOMAIN vm = Codes(raw) \cup {0}

\* C11 (amended): the same, where a code written by several keys of the file
\* ("1" and "01") keeps the label of the last of them.
C11_ZeroIsUnknownLastKeyWins ==
    \A n \in 1..Len(attrs) :
        Referenced(attrs[n]) =>
            LET vm == attrs[n].value_map
                raw == RawOf(attrs[n])
            IN  /\ vm[0] = "Unknown"
                /\ \A c \in Codes(raw) \ {0} : vm[c] = LastLabel(raw, c)
                /\ DOMAIN vm = Codes(raw) \cup {0}

\* C11 witness: the file labels code 0 and code 1; 0 is overwritten, 1 kept
C11_Witness ==
    \E n \in 1..Len(attrs) :
        /\ Referenced(attrs[n])
        /\ \E i, j \in 1..Len(RawOf(attrs[n])) :
              /\ RawOf(attrs[n])[i] = <<"0", "Granite">>
              /\ RawOf(attrs[n])[j] = <<"1", "Shale">>
        /\ attrs[n].value_map[0] = "Unknown"
        /\ attrs[n].value_map[1] = "Shale"
        /\ DOMAIN attrs[n].value_map = {0, 1}


----------------------------------------------------------------------------
\* Properties of the block-model script

Inferred == gpc \in {"inferred", "created"}

AxIdx(ax) == IF ax = "x" THEN 1 ELSE IF ax = "y" THEN 2 ELSE 3

ColSet(ax) == {Column(df, ax)[i] : i \in 1..Len(df)}

SetMax(S) == CHOOSE m \in S : \A v \in S : v <= m
SetMin(S) == CHOOSE m \in S : \A v \in S : m <= v

Count(ax) == IF ax = "x" THEN grid.xn ELSE IF ax = "y" THEN grid.yn ELSE grid.zn
Sp(ax) == IF ax = "x" THEN grid.xs ELSE IF ax = "y" THEN grid.ys ELSE grid.zs
Org(ax) == grid.origin[AxIdx(ax)]
Delims(ax) ==
    IF ax = "x" THEN bm.u_cell_delimiters
    ELSE IF ax = "y" THEN bm.v_cell_delimiters ELSE bm.z_cell_delimiters

\* (max - min) / (count - 1) over the distinct values; 0/0 is nan
ExpectedSpacing(S) ==
    IF Cardinality(S) = 1 THEN NaN
    ELSE FRound(FRound(SetMax(S) - SetMin(S), 1), Cardinality(S) - 1)

EvenlySpaced(S) ==
    \A v \in S : v = SetMin(S) \/ \E w \in S : w < v /\ (v - w) * (Cardinality(S) - 1) = SetMax(S) - SetMin(S)

\* C1: on every axis the inferred count is the number of distinct coordinate
\* values and the inferred spacing is (max - min) / (count - 1) of the distinct
\* values, evenly spaced or not; two distinct values give their full difference.
C1_CountAndSpacing ==
    Inferred =>
        \A ax \in Axes :
            /\ Count(ax) = Cardinality(ColSet(ax))
            /\ Sp(ax) = ExpectedSpacing(ColSet(ax))
            /\ Cardinality(ColSet(ax)) = 2 =>
                  Sp(ax) = FRound(SetMax(ColSet(ax)) - SetMin(ColSet(ax)), 1)

\* C1 witness: three unevenly spaced x values and exactly two y values
C1_Witness ==
    /\ Inferred
    /\ Cardinality(ColSet("x")) = 3
    /\ ~EvenlySpaced(ColSet("x"))
    /\ Cardinality(ColSet("y")) = 2
    /\ grid.ys = 3 * Unit

\* C2: on every axis with at least two distinct values the origin is
\* min - spacing/2, and the origins come in x, y, z order.
C2_OriginHalfCellBelowMin ==
    Inferred =>
        \A ax \in Axes :
            Cardinality(ColSet(ax)) >= 2 =>
                /\ Org(ax) = FRound(SetMin(ColSet(ax)) - FRound(Sp(ax), 2), 1)
                /\ Org(ax) < SetMin(ColSet(ax))

\* C2 witness: three non-degenerate axes with three different origins
C2_Witness ==
    /\ Inferred
    /\ \A ax \in Axes : Cardinality(ColSet(ax)) >= 2
    /\ Org("x") # Org("y") /\ Org("y") # Org("z") /\ Org("x") # Org("z")
    /\ Org("x") = SetMin(ColSet("x")) - (Sp("x") \div 2)

\* C3: with fewer than two distinct values on some axis the inference fails
\* (DegenerateAxisError): it returns no triple and no block model is created.
C3_DegenerateAxisFails ==
    Inferred => \A ax \in Axes : Cardinality(ColSet(ax)) >= 2

\* The lattice axis a = <<n, s, o>> is generated and measured without rounding
ExactLattice(a) ==
    /\ a[2] % 2 = 0
    /\ \A k \in 0..(a[1] - 1) :
          /\ Centre(a, k) = a[3] + (a[2] \div 2) + k * a[2]
          /\ IsFloat(k * a[2])

GenAxis(ax) == gen[AxIdx(ax)]

\* C4 (as claimed): the inference recovers exactly the (count, spacing, origin)
\* that generated the lattice, on every axis.
C4_RoundTripExact ==
    (Inferred /\ gen # NoGen) =>
        \A ax \in Axes : <<Count(ax), Sp(ax), Org(ax)>> = GenAxis(ax)

\* C4 (amended): the inference recovers exactly the generating (count, spacing,
\* origin) on every axis whose cell centres and their range are computed
\* without rounding.
C4_RoundTripWhenExact ==
    (Inferred /\ gen # NoGen) =>
        \A ax \in Axes :
            ExactLattice(GenAxis(ax)) => <<Count(ax), Sp(ax), Org(ax)>> = GenAxis(ax)

\* C4 witness: an exact lattice, rows in descending order, axis values repeated
C4_Witness ==
    /\ Inferred /\ gen # NoGen
    /\ \A ax \in Axes : ExactLattice(GenAxis(ax))
    /\ GenAxis("x")[1] >= 3
    /\ Len(df) > GenAxis("x")[1]
    /\ df[1].x > df[Len(df)].x

\* No rounding anywhere between the lattice and the cell centres of the model
NoRounding(a) ==
    /\ ExactLattice(a)
    /\ IsFloat(a[1] * a[2])
    /\ \A k \in 0..(a[1] - 1) : IsFloat((2 * k + 1) * a[2])

CentroidsAtCellCentres(ax) ==
    \A i \in 1..Len(df) :
        Cardinality({c \in 1..Count(ax) :
                        CellCentre(Org(ax), Delims(ax), c) = Column(df, ax)[i]}) = 1

\* C10 (as claimed): for a grid of centroids the delimiter array of an axis has
\* n+1 entries, starts at 0, has k-th entry k*s increasing by s, every centroid
\* is the centre of exactly one cell, and the counts are the distinct counts.
C10_DelimitersAndCentres ==
    (gpc = "created" /\ gen # NoGen) =>
        \A ax \in Axes :
            /\ Len(Delims(ax)) = Count(ax) + 1
            /\ Delims(ax)[1] = 0
            /\ \A k \in 0..Count(ax) : Delims(ax)[k + 1] = FMul(k, Sp(ax))
            /\ \A k \in 1..Count(ax) : Delims(ax)[k + 1] - Delims(ax)[k] = Sp(ax)
            /\ CentroidsAtCellCentres(ax)
            /\ Count(ax) = Cardinality(ColSet(ax))

\* C10 (amended): on every axis with n >= 2 distinct values the delimiter array
\* has n+1 entries, starts at 0, each entry is the previous one plus s (the
\* rounded running sum) and is larger than it, and n is the distinct count; on
\* an evenly spaced lattice computed without rounding the k-th entry is k*s and
\* every centroid is the centre of exactly one cell.
C10_DelimitersRunningSum ==
    gpc = "created" =>
        \A ax \in Axes :
            Cardinality(ColSet(ax)) >= 2 =>
                /\ Len(Delims(ax)) = Count(ax) + 1
                /\ Delims(ax)[1] = 0
                /\ \A k \in 1..Count(ax) :
                      /\ Delims(ax)[k + 1] = FRound(Delims(ax)[k] + Sp(ax), 1)
                      /\ Delims(ax)[k + 1] > Delims(ax)[k]
                /\ Count(ax) = Cardinality(ColSet(ax))
                /\ (gen # NoGen /\ NoRounding(GenAxis(ax))) =>
                      /\ \A k \in 0..Count(ax) : Delims(ax)[k + 1] = k * Sp(ax)
                      /\ CentroidsAtCellCentres(ax)

\* C10 witness: a 3 x 3 x 2 lattice computed without rounding
C10_Witness ==
    /\ gpc = "created" /\ gen # NoGen
    /\ \A ax \in Axes : NoRounding(GenAxis(ax))
    /\ Count("x") = 3 /\ Count("y") = 3 /\ Count("z") = 2
    /\ Len(bm.u_cell_delimiters) = 4 /\ Len(bm.z_cell_delimiters) = 3

----------------------------------------------------------------------------
\* Mesh scripts: files and their contents

MaxFiles == 3
MaxRuns == 2

InNames == {"a.dxf", "b.dxf", "a.ply", "b.ply"}

Stem(n) == IF n \in {"a.dxf", "a.ply", "a.geoh5"} THEN "a" ELSE "b"

Suffix(n) ==
    IF n \in {"a.dxf", "b.dxf"} THEN ".dxf"
    ELSE IF n \in {"a.ply", "b.ply"} THEN ".ply" ELSE ".geoh5"

\* fn + ".geoh5"
GeoName(stem) == IF stem = "a" THEN "a.geoh5" ELSE "b.geoh5"

P1 == <<0, 0, 0>>
P2 == <<1, 0, 0>>
P3 == <<0, 1, 0>>
P4 == <<1, 1, 0>>

\* A 3DFACE entity; a triangle repeats its third corner
Face3D(a, b, c) == [vtx0 |-> a, vtx1 |-> b, vtx2 |-> c, vtx3 |-> c]

Content(k, dxffaces, verts, cells, objects) ==
    [k |-> k, dxffaces |-> dxffaces, verts |-> verts, cells |-> cells,
     objects |-> objects]

Unreadable == Content("unreadable", <<>>, <<>>, <<>>, <<>>)
Corrupt == Content("corrupt", <<>>, <<>>, <<>>, <<>>)
DxfDoc(faces) == Content("dxf", faces, <<>>, <<>>, <<>>)
TriMesh == Content("mesh", <<>>, <<P1, P2, P3, P4>>, <<<<0, 1, 2>>, <<2, 1, 3>>>>, <<>>)
\* a readable mesh file that holds no triangulated surface (quad faces)
NonTri == Content("nontri", <<>>, <<P1, P2, P3, P4>>, <<<<0, 1, 3, 2>>>>, <<>>)
Container(objects) == Content("geoh5", <<>>, <<>>, <<>>, objects)

DxfContents ==
    {Unreadable, Corrupt, DxfDoc(<<>>), DxfDoc(<<Face3D(P1, P2, P3)>>),
     DxfDoc(<<Face3D(P1, P2, P3), Face3D(P3, P2, P4)>>)}

PlyContents == {Unreadable, Corrupt, TriMesh, NonTri}

ContentsFor(n) == IF Suffix(n) = ".dxf" THEN DxfContents ELSE PlyContents

Folders ==
    UNION {{f \in [S -> DxfContents \cup PlyContents] : \A n \in S : f[n] \in ContentsFor(n)} :
              S \in {T \in SUBSET InNames : Cardinality(T) \in 1..MaxFiles}}

Perms(S) ==
    {q \in [1..Cardinality(S) -> S] : \A i, j \in 1..Cardinality(S) : q[i] = q[j] => i = j}

----------------------------------------------------------------------------
\* Mesh scripts: the functions

Ok(val) == [exit |-> "none", msg |-> "", kind |-> "none", val |-> val]
Exit(st, m, kind) == [exit |-> st, msg |-> m, kind |-> kind, val |-> <<>>]
\* an exception nobody catches: the interpreter prints the traceback, status 1
Uncaught(kind) == Exit("1", "Traceback", kind)

\* read_dxf_file: ezdxf.readfile with IOError -> 1, DXFStructureError -> 2
read_dxf_file(c) ==
    IF c.k = "dxf" THEN Ok(c.dxffaces)
    ELSE IF c.k = "corrupt" THEN Exit("2", "Invalid or corrupted DXF file.", "struct")
    ELSE Exit("1", "Not a DXF file or a generic I/O error.", "io")

\* read_pyvista_compatible_file: pv.read, nothing caught
read_pyvista_compatible_file(c) ==
    IF c.k \in {"mesh", "nontri"} THEN Ok([vertices |-> c.verts, faces |-> c.cells])
    ELSE IF c.k = "unreadable" THEN Uncaught("io")
    ELSE IF c.k = "corrupt" THEN Uncaught("struct")
    ELSE Uncaught("other")

\* read_ply_file: trimesh.load_mesh with IOError -> 1
read_ply_file(c) ==
    IF c.k \in {"mesh", "nontri"} THEN Ok([vertices |-> c.verts, faces |-> c.cells])
    ELSE IF c.k = "unreadable" THEN Exit("1", "Not a PLY file or a generic I/O error.", "io")
    ELSE IF c.k = "corrupt" THEN Uncaught("struct")
    ELSE Uncaught("other")

\* create_triangle_array / triangle_array: the first three corners of a 3DFACE
create_triangle_array(fc) == <<fc.vtx0, fc.vtx1, fc.vtx2>>

RECURSIVE Flatten(_)
Flatten(ss) == IF ss = <<>> THEN <<>> ELSE Head(ss) \o Flatten(Tail(ss))

\* np.arange(len(vertices)).reshape((-1, 3))
ArangeFaces(nv) == [i \in 1..(nv \div 3) |-> <<3 * (i - 1), 3 * (i - 1) + 1, 3 * (i - 1) + 2>>]

IndexOf(s, v) == CHOOSE i \in 1..Len(s) : s[i] = v

RECURSIVE DropDegenerate(_, _)
DropDegenerate(fcs, acc) ==
    IF fcs = <<>> THEN acc
    ELSE LET f == Head(fcs)
             bad == f[1] = f[2] \/ f[2] = f[3] \/ f[1] = f[3]
                    \/ \E i \in 1..Len(acc) : {acc[i][1], acc[i][2], acc[i][3]} = {f[1], f[2], f[3]}
         IN  DropDegenerate(Tail(fcs), IF bad THEN acc ELSE Append(acc, f))

\* trimesh.Trimesh(vertices, faces, validate=True) with the default process=True:
\* equal vertices are merged, degenerate and duplicate faces removed
\* (the winding that fix_normals may reverse is not represented)
TrimeshProcess(vertices, faces) ==
    LET vs == Unique(vertices)
        fs2 == [i \in 1..Len(faces) |->
                   [j \in 1..3 |-> IndexOf(vs, vertices[faces[i][j] + 1]) - 1]]
    IN  [vertices |-> vs, faces |-> DropDegenerate(fs2, <<>>)]

\* triangles_to_mesh (tm)
triangles_to_mesh(ta) ==
    LET v == Flatten(ta) IN TrimeshProcess(v, ArangeFaces(Len(v)))

MergedTriMesh(trngl_vrtx_lst) == triangles_to_mesh(trngl_vrtx_lst)

\* dxf_triangle_list_to_pv_mesh (pv)
dxf_triangle_list_to_pv_mesh(trngl_vrtx_lst) ==
    LET vertices == Flatten(trngl_vrtx_lst)
    IN  [vertices |-> vertices, faces |-> ArangeFaces(Len(vertices))]

\* dxf_tri_mesh_to_pyvista_mesh (pv) and the head of dxf_to_geoh5 (tm);
\* np.stack of an empty list raises ValueError
DxfToMesh(s, c) ==
    LET doc == read_dxf_file(c)
        tl == [i \in 1..Len(doc.val) |-> create_triangle_array(doc.val[i])]
    IN  IF doc.exit # "none" THEN doc
        ELSE IF tl = <<>> THEN Uncaught("other")
        ELSE Ok(IF s = "pv" THEN dxf_triangle_list_to_pv_mesh(tl) ELSE triangles_to_mesh(tl))

\* which branch converts the file: by suffix (pv), by EXT (tm)
UsesDxfBranch(s, x, name) == IF s = "pv" THEN Suffix(name) = ".dxf" ELSE x = "dxf"

\* the part of mesh_file_to_geoh5_file / dxf_to_geoh5 / ply_to_geoh5 before the
\* workspace is created
LoadMesh(s, x, name, c) ==
    IF UsesDxfBranch(s, x, name) THEN DxfToMesh(s, c)
    ELSE IF s = "pv" THEN read_pyvista_compatible_file(c)
    ELSE read_ply_file(c)

\* file_list
file_list(s, x, folder) ==
    IF s = "pv" THEN DOMAIN folder
    ELSE {n \in DOMAIN folder : Suffix(n) = (IF x = "dxf" THEN ".dxf" ELSE ".ply")}

\* create_workspace_file: Workspace(path) opens the file, creating it when absent
create_workspace_file(folder, name) ==
    [n \in DOMAIN folder \cup {GeoName(Stem(name))} |->
        IF n \in DOMAIN folder THEN folder[n] ELSE Container(<<>>)]

DefaultName == "<default>"

IsTriangles(m) == \A i \in 1..Len(m.faces) : Len(m.faces[i]) = 3

\* pv_mesh_to_geoh5_surface / geoh5_export: Surface.create adds one object
SurfaceCreate(s, name, m) ==
    [name |-> IF s = "pv" THEN Stem(name) ELSE DefaultName,
     vertices |-> m.vertices, cells |-> m.faces]

SkipToNextFile(i) == [pc |-> "loop", idx |-> i + 1]

\* sys.exit / an uncaught exception ends the process at file i of the list
AfterFailure(i) == [pc |-> "exited", idx |-> i]

----------------------------------------------------------------------------
\* Mesh scripts: the run

Cur == queue[idx]

StartRun ==
    /\ pc \in {"idle", "done"}
    /\ runs < MaxRuns
    /\ IF mode = "single"
       THEN queue' = <<infile>>
       ELSE \E q \in Perms(file_list(script, ext, fs)) : queue' = q
    /\ idx' = 1
    /\ pc' = "loop"
    /\ readLog' = <<>>
    /\ msh' = <<>>
    /\ startFs' = fs
    /\ UNCHANGED <<script, mode, ext, infile, fs, runs, open, status, msg, failure, snap, gridVars>>

\* read the next file and build the mesh in memory
ReadFile ==
    /\ pc = "loop"
    /\ idx <= Len(queue)
    /\ LET r == LoadMesh(script, ext, Cur, fs[Cur])
       IN  /\ readLog' = Append(readLog, Cur)
           /\ startFs' = fs
           /\ IF r.exit = "none"
              THEN /\ msh' = r.val
                   /\ pc' = "read"
                   /\ UNCHANGED <<status, msg, failure, idx>>
              ELSE /\ status' = r.exit
                   /\ msg' = r.msg
                   /\ failure' = r.kind
                   /\ pc' = AfterFailure(idx).pc
                   /\ idx' = AfterFailure(idx).idx
                   /\ UNCHANGED msh
    /\ UNCHANGED <<script, mode, ext, infile, fs, runs, queue, open, snap, gridVars>>

CreateWorkspace ==
    /\ pc = "read"
    /\ fs' = create_workspace_file(fs, Cur)
    /\ open' = open \cup {GeoName(Stem(Cur))}
    /\ pc' = "opened"
    /\ UNCHANGED <<script, mode, ext, infile, runs, queue, idx, msh, status, msg,
                   failure, readLog, startFs, snap, gridVars>>

\* Surface.create on the open workspace; a mesh that is no triangulated surface
\* raises here, with the workspace open
Export ==
    /\ pc = "opened"
    /\ IF IsTriangles(msh)
       THEN /\ fs' = [fs EXCEPT ![GeoName(Stem(Cur))].objects =
                          Append(@, SurfaceCreate(script, Cur, msh))]
            /\ pc' = "exported"
            /\ UNCHANGED <<status, msg, failure, idx>>
       ELSE /\ status' = "1"
            /\ msg' = "Traceback"
            /\ failure' = "other"
            /\ pc' = AfterFailure(idx).pc
            /\ idx' = AfterFailure(idx).idx
            /\ UNCHANGED fs
    /\ UNCHANGED <<script, mode, ext, infile, runs, queue, msh, open, readLog,
                   startFs, snap, gridVars>>

\* wp.close() / wp.finalize(), then the next file of the list
CloseWorkspace ==
    /\ pc = "exported"
    /\ open' = open \ {GeoName(Stem(Cur))}
    /\ idx' = idx + 1
    /\ pc' = "loop"
    /\ UNCHANGED <<script, mode, ext, infile, fs, runs, queue, msh, status, msg,
                   failure, readLog, startFs, snap, gridVars>>

\* the list is exhausted: the process ends normally
FinishRun ==
    /\ pc = "loop"
    /\ idx > Len(queue)
    /\ pc' = "done"
    /\ runs' = runs + 1
    /\ snap' = IF runs = 0 THEN fs ELSE snap
    /\ UNCHANGED <<script, mode, ext, infile, fs, queue, idx, msh, open, status, msg,
                   failure, readLog, startFs, gridVars>>

GridIdle ==
    /\ gpc = "read" /\ df = <<>> /\ gen = NoGen /\ grid = NoGrid /\ bm = NoBm
    /\ AttrIdle

InitMesh ==
    /\ GridIdle
    /\ script \in {"pv", "tm"}
    /\ mode \in {"single", "batch"}
    /\ ext \in (IF script = "pv" THEN {""} ELSE {"dxf", "ply"})
    /\ fs \in Folders
    /\ infile \in (IF mode = "single" THEN DOMAIN fs ELSE {""})
    /\ runs = 0 /\ pc = "idle" /\ queue = <<>> /\ idx = 0
    /\ msh = <<>> /\ open = {} /\ status = "none" /\ msg = "" /\ failure = "none"
    /\ readLog = <<>> /\ startFs = <<>> /\ snap = <<>>

NextMesh ==
    \/ StartRun
    \/ ReadFile
    \/ CreateWorkspace
    \/ Export
    \/ CloseWorkspace
    \/ FinishRun

SpecMesh == InitMesh /\ [][NextMesh]_vars

----------------------------------------------------------------------------
\* Properties of the mesh scripts

\* C5: a generic I/O failure ends the process with a message and status 1, a
\* structural parse failure with a message and status 2, whatever the input
\* format; the process ends normally only on success.
C5_StatusPerFailureKind ==
    /\ failure = "io" => (status = "1" /\ msg # "")
    /\ failure = "struct" => (status = "2" /\ msg # "")
    /\ (pc = "done" \/ status = "none") => failure = "none"

\* C6: in batch mode a failure at the k-th file ends the whole batch: exactly
\* the first k files of the list were read, no later one is, and every file the
\* folder held when the k-th conversion began is still there, unchanged.
C6_BatchAbortsOnFailure ==
    (mode = "batch" /\ failure # "none") =>
        /\ pc = "exited"
        /\ idx <= Len(queue)
        /\ readLog = SubSeq(queue, 1, idx)
        /\ \A n \in DOMAIN startFs : n \in DOMAIN fs /\ fs[n] = startFs[n]

\* C6 witness: the second of at least three files fails after the first one's
\* container was written
C6_Witness ==
    /\ mode = "batch" /\ pc = "exited" /\ failure # "none"
    /\ idx = 2 /\ Len(queue) >= 3
    /\ GeoName(Stem(queue[1])) \in DOMAIN fs
    /\ fs[GeoName(Stem(queue[1]))].objects # <<>>

\* C7: at most one container is open, and on every path the container opened
\* for a file is closed before its conversion returns, so none is open between
\* two files or when the process has ended.
C7_ContainerClosedBeforeReturn ==
    /\ Cardinality(open) <= 1
    /\ pc \in {"idle", "loop", "done", "exited"} => open = {}

SecondRunOver == (runs = 2 /\ pc = "done") \/ (runs = 1 /\ pc = "exited")

\* C8: after a second run on the same input the containers are those of the
\* first run, with the same objects, and no container was read as an input.
C8_SecondRunSameOutput ==
    SecondRunOver =>
        /\ \A n \in DOMAIN fs :
              fs[n].k = "geoh5" => (n \in DOMAIN snap /\ fs[n] = snap[n])
        /\ \A i \in 1..Len(readLog) : fs[readLog[i]].k # "geoh5"

LastObject == LET objs == fs[GeoName(Stem(Cur))].objects IN objs[Len(objs)]

NoDedup(F, o) ==
    /\ Len(F) >= 1
    /\ Len(o.vertices) = 3 * Len(F)
    /\ Len(o.cells) = Len(F)
    /\ \A i \in 0..(Len(F) - 1) :
          /\ o.cells[i + 1] = <<3 * i, 3 * i + 1, 3 * i + 2>>
          /\ o.vertices[3 * i + 1] = F[i + 1].vtx0
          /\ o.vertices[3 * i + 2] = F[i + 1].vtx1
          /\ o.vertices[3 * i + 3] = F[i + 1].vtx2

\* C9 (as claimed): a DXF input with N >= 1 3D faces becomes a surface of 3N
\* vertices and N triangles, vertex 3i+j the corner j of face i and triangle i
\* the indices (3i, 3i+1, 3i+2), with either script.
C9_DxfNoDedup ==
    (pc = "exported" /\ UsesDxfBranch(script, ext, Cur)) =>
        NoDedup(fs[Cur].dxffaces, LastObject)

\* C9 (amended): the same, for the script built on PyVista
\* (geoh5/convert_triangular_mesh_to_geoh5_surface.py).
C9_DxfNoDedupPyVista ==
    (pc = "exported" /\ script = "pv" /\ UsesDxfBranch(script, ext, Cur)) =>
        NoDedup(fs[Cur].dxffaces, LastObject)

\* C9 witness: two faces sharing an edge give 6 vertices and 2 triangles
C9_Witness ==
    /\ pc = "exported" /\ script = "pv" /\ UsesDxfBranch(script, ext, Cur)
    /\ Len(fs[Cur].dxffaces) = 2
    /\ fs[Cur].dxffaces[1].vtx1 = fs[Cur].dxffaces[2].vtx1
    /\ Len(LastObject.vertices) = 6
    /\ Len(LastObject.cells) = 2

====
